---- MODULE Spec2Model ----
(***************************************************************************)
(* The context (symbol table) of the Zeta front end: a stack of            *)
(* fixed-capacity open-addressed maps, src/include/context.h.              *)
(*                                                                         *)
(* The heap is a finite set of addresses.  A node that is not live (never  *)
(* allocated, or freed) has indeterminate content; an operation that       *)
(* dereferences or frees such a node has undefined behaviour.  The model   *)
(* records the operation as undefined (ret = "UB", pc = "undefined") and   *)
(* follows the execution no further: every behaviour is an execution up    *)
(* to and including its first undefined operation.  A call that never      *)
(* returns is recorded the same way (ret = "HANG", pc = "hang").           *)
(*                                                                         *)
(* ctxalloc never writes the tail of the base node.  That word holds       *)
(* whatever malloc left in it: any address or NULL.  The value is chosen   *)
(* when a call first reads the word (junk) and stays what it was read as.  *)
(***************************************************************************)
EXTENDS Integers, Sequences, FiniteSets

(***************************************************************************)
(* Bounds of the model.                                                    *)
(***************************************************************************)
\* struct map's table length; 256 in the source, scaled down here
MAP_LENGTH == 2
\* number of struct stack nodes the heap can hold at once
MaxNodes == 2
\* values range over 1..MaxValue
MaxValue == 2
\* number of bindings held by all live scopes together
MaxPairs == 2
\* length of the longest key handed to ctxhash on its own
MaxKeyLen == 2

(***************************************************************************)
(* Data types.                                                             *)
(***************************************************************************)
NULL == 0
Addr == 1..MaxNodes
Slots == 0..(MAP_LENGTH - 1)
Values == 1..MaxValue

\* keys are NUL-terminated byte strings, written as the tuple of their bytes:
\* the callers' keys are "a", "ba" and "b", one more than a table of two
\* slots holds; "a" and "ba" hash alike modulo 2, "a" and "b" modulo 3
KeyPool == << <<97>>, <<98, 97>>, <<98>> >>
Keys == {KeyPool[i] : i \in 1..Len(KeyPool)}
\* the empty string: key[0] == '\0' marks an unoccupied slot
EmptyKey == << >>
\* a null char const *key, written as a tuple that no string equals
NullKey == <<-1>>

\* error codes
EXIT_SUCCESS == "EXIT_SUCCESS"
EXIT_NULLPTR == "EXIT_NULLPTR"
EXIT_MALLOC == "EXIT_MALLOC"
EXIT_MINIMISED == "EXIT_MINIMISED"
EXIT_MAXIMISED == "EXIT_MAXIMISED"
EXIT_REDEFINED == "EXIT_REDEFINED"
EXIT_UNDEFINED == "EXIT_UNDEFINED"
\* results of the calls that return no code, and of calls that do not return
VOID == "void"
UB == "UB"
HANG == "HANG"
\* a tail that was never written
UNINIT == -1
\* the never-written word has not been read yet
UNREAD == -2
\* a walk has come to the never-written word
JUNK == "JUNK"
\* the caller's int has not been written by the call
NoValue == 0

\* struct pair with key and value cleared (memset 0, value = 0)
ClearedPair == [key |-> EmptyKey, value |-> 0]
\* struct map.pairs after the clearing loop
ClearedPairs == [i \in Slots |-> ClearedPair]
\* a node that is not live: its content is indeterminate
Blank == [live |-> FALSE, tail |-> NULL, pairs |-> ClearedPairs, size |-> 0]

\* the address of the one struct context the heap can hold
CTX == 1
\* the struct context allocation while it is not live
NoContext == [live |-> FALSE, head |-> NULL, size |-> 0]

\* the bytes of the keys handed to ctxhash on its own: 'a', 'b', 'c'
Bytes == {97, 98, 99}
\* the strings of n of these bytes
RECURSIVE KeysOfLen(_)
KeysOfLen(n) ==
  IF n = 0 THEN {<< >>}
  ELSE {Append(key, c) : key \in KeysOfLen(n - 1), c \in Bytes}
HashKeys == UNION {KeysOfLen(n) : n \in 0..MaxKeyLen}
\* no earlier call of ctxhash is remembered
NoCall == [called |-> FALSE, key |-> << >>, hash |-> 0]
\* no call of ctxhash was made yet
NoHashing == [busy |-> FALSE, key |-> << >>, it |-> 1, hash |-> 0, last |-> NoCall]

VARIABLES
  context,  \* the caller's struct context *: NULL or CTX
  ctxobj,   \* the struct context allocation: [live, head, size]
  stack,    \* the heap of struct stack nodes: Addr -> [live, tail, pairs, size]
  junk,     \* what the never-written tail of the base node reads as, or UNREAD
  op,       \* the last call: [name]
  ret,      \* what the last call returned
  out,      \* what the last call wrote through int *value
  pc,       \* "run", "exit" (after ctxfree), "undefined", "hang"
  hashing   \* a call of ctxhash on its own: [busy, key, it, hash, last]

vars == <<context, ctxobj, stack, junk, op, ret, out, pc, hashing>>

(***************************************************************************)
(* The allocator.                                                          *)
(***************************************************************************)
FreeAddrs(st) == {a \in Addr : ~st[a].live}

\* malloc (sizeof (struct stack)) when it succeeds: the lowest free address
malloc(st) == CHOOSE a \in FreeAddrs(st) : \A b \in FreeAddrs(st) : a <= b

\* free (node)
free(st, a) == [st EXCEPT ![a] = Blank]

\* a pointer that may be dereferenced
Live(st, a) == a \in Addr /\ st[a].live

\* the heap with the never-written tail reading as word
Resolve(st, word) ==
  [a \in Addr |-> IF st[a].tail = UNINIT THEN [st[a] EXCEPT !.tail = word] ELSE st[a]]

\* the heap st with the tail of live node base marked never-written again
Unresolve(st, base) ==
  [a \in Addr |-> IF a = base /\ st[a].live THEN [st[a] EXCEPT !.tail = UNINIT] ELSE st[a]]

\* the node whose tail was never written
BaseOf(st) == {a \in Addr : st[a].tail = UNINIT}

\* the values the never-written word may read as
Garbage(word) == IF word = UNREAD THEN Addr \cup {NULL} ELSE {word}

(***************************************************************************)
(* ctxhash                                                                 *)
(***************************************************************************)
RECURSIVE HashFold(_, _, _)
HashFold(key, i, hash) ==
  IF i > Len(key) THEN hash
  ELSE HashFold(key, i + 1, ((hash + key[i]) * key[i]) % MAP_LENGTH)

ctxhash(key) == HashFold(key, 1, 0)

(***************************************************************************)
(* ctxinsert                                                               *)
(***************************************************************************)
\* InsertProbe with a slot holding key given the new value
RECURSIVE InsertProbeOverwrite(_, _, _, _, _)
InsertProbeOverwrite(map, key, value, i, steps) ==
  IF steps >= MAP_LENGTH
    THEN [ret |-> HANG, map |-> map]
  ELSE IF map.pairs[i].key = EmptyKey
    THEN [ret |-> EXIT_SUCCESS,
          map |-> [pairs |-> [map.pairs EXCEPT ![i] = [key |-> key, value |-> value]],
                   size |-> map.size + 1]]
  ELSE IF map.pairs[i].key = key
    THEN [ret |-> EXIT_REDEFINED,
          map |-> [pairs |-> [map.pairs EXCEPT ![i].value = value],
                   size |-> map.size]]
  ELSE InsertProbeOverwrite(map, key, value, (i + 1) % MAP_LENGTH, steps + 1)

\* InsertProbe without the step to the next slot: the pair is written at
\* slot i unless that slot holds key
InsertProbeClobber(map, key, value, i, steps) ==
  IF map.pairs[i].key = key
    THEN [ret |-> EXIT_REDEFINED, map |-> map]
  ELSE [ret |-> EXIT_SUCCESS,
        map |-> [pairs |-> [map.pairs EXCEPT ![i] = [key |-> key, value |-> value]],
                 size |-> map.size + 1]]

\* InsertProbe with the pair written at the lowest unoccupied slot of the
\* table instead of the first one from slot i
InsertProbeFirstFree(map, key, value, i, steps) ==
  IF \E j \in Slots : map.pairs[j].key = key
    THEN [ret |-> EXIT_REDEFINED, map |-> map]
  ELSE IF \A j \in Slots : map.pairs[j].key # EmptyKey
    THEN [ret |-> HANG, map |-> map]
  ELSE LET empty == {j \in Slots : map.pairs[j].key = EmptyKey}
           low == CHOOSE j \in empty : \A l \in empty : j <= l
       IN [ret |-> EXIT_SUCCESS,
           map |-> [pairs |-> [map.pairs EXCEPT ![low] = [key |-> key, value |-> value]],
                    size |-> map.size + 1]]

\* InsertProbe without map->size++
RECURSIVE InsertProbeNoCount(_, _, _, _, _)
InsertProbeNoCount(map, key, value, i, steps) ==
  IF steps >= MAP_LENGTH
    THEN [ret |-> HANG, map |-> map]
  ELSE IF map.pairs[i].key = EmptyKey
    THEN [ret |-> EXIT_SUCCESS,
          map |-> [pairs |-> [map.pairs EXCEPT ![i] = [key |-> key, value |-> value]],
                   size |-> map.size]]
  ELSE IF map.pairs[i].key = key
    THEN [ret |-> EXIT_REDEFINED, map |-> map]
  ELSE InsertProbeNoCount(map, key, value, (i + 1) % MAP_LENGTH, steps + 1)

\* InsertProbe without the strcmp: a slot holding key is stepped over
RECURSIVE InsertProbeNoCompare(_, _, _, _, _)
InsertProbeNoCompare(map, key, value, i, steps) ==
  IF steps >= MAP_LENGTH
    THEN [ret |-> HANG, map |-> map]
  ELSE IF map.pairs[i].key = EmptyKey
    THEN [ret |-> EXIT_SUCCESS,
          map |-> [pairs |-> [map.pairs EXCEPT ![i] = [key |-> key, value |-> value]],
                   size |-> map.size + 1]]
  ELSE InsertProbeNoCompare(map, key, value, (i + 1) % MAP_LENGTH, steps + 1)

\* InsertProbe without i = (i + 1) % MAP_LENGTH
RECURSIVE InsertProbeNoStep(_, _, _, _, _)
InsertProbeNoStep(map, key, value, i, steps) ==
  IF steps >= MAP_LENGTH
    THEN [ret |-> HANG, map |-> map]
  ELSE IF map.pairs[i].key = EmptyKey
    THEN [ret |-> EXIT_SUCCESS,
          map |-> [pairs |-> [map.pairs EXCEPT ![i] = [key |-> key, value |-> value]],
                   size |-> map.size + 1]]
  ELSE IF map.pairs[i].key = key
    THEN [ret |-> EXIT_REDEFINED, map |-> map]
  ELSE InsertProbeNoStep(map, key, value, i, steps + 1)

\* the probe loop of ctxinsert from slot i; steps counts the slots examined:
\* once all MAP_LENGTH slots were examined without an exit the loop never ends
RECURSIVE InsertProbe(_, _, _, _, _)
InsertProbe(map, key, value, i, steps) ==
  IF steps >= MAP_LENGTH
    THEN [ret |-> HANG, map |-> map]
  ELSE IF map.pairs[i].key = EmptyKey
    THEN [ret |-> EXIT_SUCCESS,
          map |-> [pairs |-> [map.pairs EXCEPT ![i] = [key |-> key, value |-> value]],
                   size |-> map.size + 1]]
  ELSE IF map.pairs[i].key = key
    THEN [ret |-> EXIT_REDEFINED, map |-> map]
  ELSE InsertProbe(map, key, value, (i + 1) % MAP_LENGTH, steps + 1)

MapOf(node) == [pairs |-> node.pairs, size |-> node.size]

ctxinsert(ctx, obj, st, key, value) ==
  IF ctx = NULL \/ key = NullKey
    THEN [ret |-> EXIT_NULLPTR, st |-> st]
  ELSE IF ~Live(st, obj.head)
    THEN [ret |-> UB, st |-> st]
  ELSE IF st[obj.head].size >= MAP_LENGTH
    THEN [ret |-> EXIT_MAXIMISED, st |-> st]
  ELSE LET r == InsertProbe(MapOf(st[obj.head]), key, value, ctxhash(key), 0)
       IN [ret |-> r.ret,
           st |-> [st EXCEPT ![obj.head].pairs = r.map.pairs,
                             ![obj.head].size = r.map.size]]

(***************************************************************************)
(* ctxsearch                                                               *)
(***************************************************************************)
\* the inner loop of ctxsearch: at most MAP_LENGTH slots from index
RECURSIVE SearchProbe(_, _, _, _)
SearchProbe(pairs, key, index, count) ==
  IF count >= MAP_LENGTH THEN [found |-> FALSE, value |-> NoValue]
  ELSE IF pairs[index].key = EmptyKey THEN [found |-> FALSE, value |-> NoValue]
  ELSE IF pairs[index].key = key THEN [found |-> TRUE, value |-> pairs[index].value]
  ELSE SearchProbe(pairs, key, (index + 1) % MAP_LENGTH, count + 1)

\* SearchFrom with the enclosing scopes searched first
RECURSIVE SearchFromOutermost(_, _, _, _, _)
SearchFromOutermost(st, head, key, hash, seen) ==
  IF head = NULL THEN [ret |-> EXIT_UNDEFINED, value |-> NoValue]
  ELSE IF head = UNINIT THEN [ret |-> JUNK, value |-> NoValue]
  ELSE IF ~Live(st, head) THEN [ret |-> UB, value |-> NoValue]
  ELSE IF head \in seen THEN [ret |-> HANG, value |-> NoValue]
  ELSE LET outer == SearchFromOutermost(st, st[head].tail, key, hash, seen \cup {head})
           r == SearchProbe(st[head].pairs, key, hash, 0)
       IN IF outer.ret = EXIT_SUCCESS \/ st[head].size <= 0 \/ ~r.found
            THEN outer
          ELSE [ret |-> EXIT_SUCCESS, value |-> r.value]

\* the outer loop of ctxsearch from node head; seen are the nodes already
\* visited by this call (the loop changes nothing, so a revisit never ends)
RECURSIVE SearchFrom(_, _, _, _, _)
SearchFrom(st, head, key, hash, seen) ==
  IF head = NULL THEN [ret |-> EXIT_UNDEFINED, value |-> NoValue]
  ELSE IF head = UNINIT THEN [ret |-> JUNK, value |-> NoValue]
  ELSE IF ~Live(st, head) THEN [ret |-> UB, value |-> NoValue]
  ELSE IF head \in seen THEN [ret |-> HANG, value |-> NoValue]
  ELSE IF st[head].size <= 0
    THEN SearchFrom(st, st[head].tail, key, hash, seen \cup {head})
  ELSE LET r == SearchProbe(st[head].pairs, key, hash, 0)
       IN IF r.found THEN [ret |-> EXIT_SUCCESS, value |-> r.value]
          ELSE SearchFrom(st, st[head].tail, key, hash, seen \cup {head})

\* ctxsearch with *value written when the key is not found
ctxsearchWritesOnMiss(ctx, obj, st, key, valueptr) ==
  IF ctx = NULL \/ key = NullKey \/ ~valueptr
    THEN [ret |-> EXIT_NULLPTR, value |-> NoValue]
  ELSE LET r == SearchFrom(st, obj.head, key, ctxhash(key), {})
       IN IF r.ret = EXIT_UNDEFINED THEN [ret |-> r.ret, value |-> 1] ELSE r

\* ctxsearch without the test value == NULL
ctxsearchUnchecked(ctx, obj, st, key, valueptr) ==
  IF ctx = NULL \/ key = NullKey
    THEN [ret |-> EXIT_NULLPTR, value |-> NoValue]
  ELSE SearchFrom(st, obj.head, key, ctxhash(key), {})

\* valueptr is FALSE for a null int *value
ctxsearch(ctx, obj, st, key, valueptr) ==
  IF ctx = NULL \/ key = NullKey \/ ~valueptr
    THEN [ret |-> EXIT_NULLPTR, value |-> NoValue]
  ELSE SearchFrom(st, obj.head, key, ctxhash(key), {})

(***************************************************************************)
(* The loops of ctxfree and ctxreset.                                      *)
(***************************************************************************)
\* ctxfree's for (;;): free (head); stop at a null tail, else step to tail
RECURSIVE FreeWalk(_, _, _)
FreeWalk(st, head, tail) ==
  LET st1 == free(st, head)
  IN IF tail = NULL THEN [st |-> st1, ub |-> FALSE]
     ELSE IF ~Live(st1, tail) THEN [st |-> st1, ub |-> TRUE]
     ELSE FreeWalk(st1, tail, st1[tail].tail)

\* ctxreset's while (tail != NULL): free (head); step to tail
RECURSIVE ResetWalk(_, _, _)
ResetWalk(st, head, tail) ==
  IF tail = NULL THEN [st |-> st, ub |-> FALSE]
  ELSE LET st1 == free(st, head)
       IN IF ~Live(st1, tail) THEN [st |-> st1, ub |-> TRUE]
          ELSE ResetWalk(st1, tail, st1[tail].tail)

(***************************************************************************)
(* Helpers of the actions.                                                 *)
(***************************************************************************)
\* occupied slots of a node
Occupied(node) == {i \in Slots : node.pairs[i].key # EmptyKey}

RECURSIVE SumOccupied(_, _)
SumOccupied(st, as) ==
  IF as = {} THEN 0
  ELSE LET a == CHOOSE x \in as : TRUE
       IN Cardinality(Occupied(st[a])) + SumOccupied(st, as \ {a})

\* bindings held by all live nodes
TotalPairs(st) == SumOccupied(st, {a \in Addr : st[a].live})

Returned(name, code, value) ==
  /\ op' = [name |-> name]
  /\ ret' = code
  /\ out' = value
  /\ pc' = CASE code = UB -> "undefined"
             [] code = HANG -> "hang"
             [] name = "ctxfree" /\ context # NULL -> "exit"
             [] OTHER -> "run"
  /\ UNCHANGED hashing

(***************************************************************************)
(* The operations.                                                         *)
(***************************************************************************)
Init ==
  /\ context = NULL
  /\ ctxobj = NoContext
  /\ stack = [a \in Addr |-> Blank]
  /\ junk = UNREAD
  /\ op = [name |-> "main"]
  /\ ret = VOID
  /\ out = NoValue
  /\ pc = "run"
  /\ hashing = NoHashing

\* ctxalloc, both allocations succeed; the tail of the base node is not written
CtxAllocOk ==
  /\ pc = "run"
  /\ context = NULL
  /\ FreeAddrs(stack) # {}
  /\ LET head == malloc(stack)
     IN /\ stack' = [stack EXCEPT ![head] =
                       [live |-> TRUE, tail |-> UNINIT,
                        pairs |-> ClearedPairs, size |-> 0]]
        /\ ctxobj' = [live |-> TRUE, head |-> head, size |-> 1]
  /\ context' = CTX
  /\ junk' = UNREAD
  /\ Returned("ctxalloc", EXIT_SUCCESS, NoValue)

\* CtxAllocFail without free (context) when the second malloc fails
CtxAllocFailLeaks ==
  /\ pc = "run"
  /\ context = NULL
  /\ context' = NULL
  /\ ctxobj' = [live |-> TRUE, head |-> NULL, size |-> 1]
  /\ UNCHANGED <<stack, junk>>
  /\ Returned("ctxalloc", EXIT_MALLOC, NoValue)

\* ctxalloc, the first or the second malloc fails: the context is freed
\* again in the second case and NULL is returned
CtxAllocFail ==
  /\ pc = "run"
  /\ context = NULL
  /\ context' = NULL
  /\ ctxobj' = NoContext
  /\ UNCHANGED <<stack, junk>>
  /\ Returned("ctxalloc", EXIT_MALLOC, NoValue)

\* ctxfree: the struct context itself is not freed
CtxFree ==
  /\ pc = "run"
  /\ UNCHANGED <<context, ctxobj>>
  /\ IF context = NULL
       THEN /\ UNCHANGED <<stack, junk>>
            /\ Returned("ctxfree", VOID, NoValue)
     ELSE IF ~Live(stack, ctxobj.head)
       THEN /\ UNCHANGED <<stack, junk>>
            /\ Returned("ctxfree", UB, NoValue)
     ELSE \E word \in Garbage(junk) :
            LET st == Resolve(stack, word)
                r == FreeWalk(st, ctxobj.head, st[ctxobj.head].tail)
            IN /\ stack' = r.st
               /\ junk' = word
               /\ Returned("ctxfree", IF r.ub THEN UB ELSE VOID, NoValue)

\* ctxreset: neither context->head, context->size nor map.size is written
CtxReset ==
  /\ pc = "run"
  /\ UNCHANGED <<context, ctxobj>>
  /\ IF context = NULL
       THEN /\ UNCHANGED <<stack, junk>>
            /\ Returned("ctxreset", VOID, NoValue)
     ELSE IF ~Live(stack, ctxobj.head)
       THEN /\ UNCHANGED <<stack, junk>>
            /\ Returned("ctxreset", UB, NoValue)
     ELSE \E word \in Garbage(junk), base \in BaseOf(stack) :
            LET st == Resolve(stack, word)
                r == ResetWalk(st, ctxobj.head, st[ctxobj.head].tail)
            IN /\ junk' = word
               /\ IF r.ub \/ ~Live(r.st, ctxobj.head)
                    THEN /\ stack' = Unresolve(r.st, base)
                         /\ Returned("ctxreset", UB, NoValue)
                  ELSE /\ stack' = Unresolve(
                            [r.st EXCEPT ![ctxobj.head].pairs = ClearedPairs], base)
                       /\ Returned("ctxreset", VOID, NoValue)

\* ctxpush without head->tail = context->head
ctxpushUnlinked(ctx, obj, st, room) ==
  IF ctx = NULL
    THEN [ret |-> EXIT_NULLPTR, obj |-> obj, st |-> st]
  ELSE IF ~room
    THEN [ret |-> EXIT_MALLOC, obj |-> obj, st |-> st]
  ELSE LET head == malloc(st)
       IN [ret |-> EXIT_SUCCESS,
           obj |-> [obj EXCEPT !.head = head, !.size = obj.size + 1],
           st |-> [st EXCEPT ![head] =
                     [live |-> TRUE, tail |-> NULL,
                      pairs |-> ClearedPairs, size |-> 0]]]

\* ctxpush; room is FALSE when malloc returns NULL
ctxpush(ctx, obj, st, room) ==
  IF ctx = NULL
    THEN [ret |-> EXIT_NULLPTR, obj |-> obj, st |-> st]
  ELSE IF ~room
    THEN [ret |-> EXIT_MALLOC, obj |-> obj, st |-> st]
  ELSE LET head == malloc(st)
       IN [ret |-> EXIT_SUCCESS,
           obj |-> [obj EXCEPT !.head = head, !.size = obj.size + 1],
           st |-> [st EXCEPT ![head] =
                     [live |-> TRUE, tail |-> obj.head,
                      pairs |-> ClearedPairs, size |-> 0]]]

\* ctxpush, malloc succeeds
CtxPush ==
  /\ pc = "run"
  /\ context # NULL
  /\ FreeAddrs(stack) # {}
  /\ LET r == ctxpush(context, ctxobj, stack, TRUE)
     IN /\ stack' = r.st
        /\ ctxobj' = r.obj
        /\ UNCHANGED <<context, junk>>
        /\ Returned("ctxpush", r.ret, NoValue)

\* ctxpush on a null context, or malloc fails
CtxPushFail ==
  /\ pc = "run"
  /\ LET r == ctxpush(context, ctxobj, stack, FALSE)
     IN /\ stack' = r.st
        /\ ctxobj' = r.obj
        /\ UNCHANGED <<context, junk>>
        /\ Returned("ctxpush", r.ret, NoValue)

\* ctxpop without context->size--
ctxpopKeepsCount(ctx, obj, st) ==
  IF ctx = NULL
    THEN [ret |-> EXIT_NULLPTR, obj |-> obj, st |-> st]
  ELSE IF obj.size <= 1
    THEN [ret |-> EXIT_MINIMISED, obj |-> obj, st |-> st]
  ELSE IF ~Live(st, obj.head) \/ st[obj.head].tail = UNINIT
    THEN [ret |-> UB, obj |-> obj, st |-> st]
  ELSE [ret |-> EXIT_SUCCESS,
        obj |-> [obj EXCEPT !.head = st[obj.head].tail],
        st |-> free(st, obj.head)]

\* ctxpop; a context->size above 1 over the base node is taken as undefined
ctxpop(ctx, obj, st) ==
  IF ctx = NULL
    THEN [ret |-> EXIT_NULLPTR, obj |-> obj, st |-> st]
  ELSE IF obj.size <= 1
    THEN [ret |-> EXIT_MINIMISED, obj |-> obj, st |-> st]
  ELSE IF ~Live(st, obj.head) \/ st[obj.head].tail = UNINIT
    THEN [ret |-> UB, obj |-> obj, st |-> st]
  ELSE [ret |-> EXIT_SUCCESS,
        obj |-> [obj EXCEPT !.head = st[obj.head].tail, !.size = obj.size - 1],
        st |-> free(st, obj.head)]

\* CtxPop with the guard context->size < 1
CtxPopBelowBase ==
  /\ pc = "run"
  /\ UNCHANGED <<context, junk>>
  /\ IF context = NULL
       THEN /\ UNCHANGED <<ctxobj, stack>>
            /\ Returned("ctxpop", EXIT_NULLPTR, NoValue)
     ELSE IF ctxobj.size < 1
       THEN /\ UNCHANGED <<ctxobj, stack>>
            /\ Returned("ctxpop", EXIT_MINIMISED, NoValue)
     ELSE IF ~Live(stack, ctxobj.head) \/ stack[ctxobj.head].tail = UNINIT
       THEN /\ UNCHANGED <<ctxobj, stack>>
            /\ Returned("ctxpop", UB, NoValue)
     ELSE /\ ctxobj' = [ctxobj EXCEPT !.head = stack[ctxobj.head].tail,
                                      !.size = ctxobj.size - 1]
          /\ stack' = free(stack, ctxobj.head)
          /\ Returned("ctxpop", EXIT_SUCCESS, NoValue)

\* ctxpop
CtxPop ==
  /\ pc = "run"
  /\ LET r == ctxpop(context, ctxobj, stack)
     IN /\ stack' = r.st
        /\ ctxobj' = r.obj
        /\ UNCHANGED <<context, junk>>
        /\ Returned("ctxpop", r.ret, NoValue)

\* ctxinsert
CtxInsert(key, value) ==
  /\ pc = "run"
  /\ LET r == ctxinsert(context, ctxobj, stack, key, value)
     IN /\ r.ret = EXIT_SUCCESS => TotalPairs(stack) < MaxPairs
        /\ stack' = r.st
        /\ UNCHANGED <<context, ctxobj, junk>>
        /\ Returned("ctxinsert", r.ret, NoValue)

\* ctxsearch; the never-written word is read when no scope yields a match
CtxSearch(key, valueptr) ==
  /\ pc = "run"
  /\ UNCHANGED <<context, ctxobj, stack>>
  /\ LET r == ctxsearch(context, ctxobj, stack, key, valueptr)
     IN IF r.ret # JUNK
          THEN UNCHANGED junk /\ Returned("ctxsearch", r.ret, r.value)
        ELSE \E word \in Garbage(junk) :
               LET q == ctxsearch(context, ctxobj, Resolve(stack, word), key, valueptr)
               IN junk' = word /\ Returned("ctxsearch", q.ret, q.value)

Next ==
  \/ CtxAllocOk
  \/ CtxAllocFail
  \/ CtxFree
  \/ CtxReset
  \/ CtxPush
  \/ CtxPushFail
  \/ CtxPop
  \/ \E key \in Keys \cup {NullKey}, value \in Values : CtxInsert(key, value)
  \/ \E key \in Keys \cup {NullKey}, valueptr \in BOOLEAN : CtxSearch(key, valueptr)

Spec == Init /\ [][Next]_vars

(***************************************************************************)
(* ctxhash called on its own, statement by statement.  hashing.last is an  *)
(* earlier call and its result, kept for comparison; between two calls the *)
(* context may be created and scopes pushed.                               *)
(***************************************************************************)
\* ctxhash with hash %= MAP_LENGTH done before hash *= c
HashStepModFirst ==
  /\ hashing.busy
  /\ hashing.it <= Len(hashing.key)
  /\ LET c == hashing.key[hashing.it]
         h1 == hashing.hash + c
         h2 == h1 % MAP_LENGTH
         h3 == h2 * c
     IN hashing' = [hashing EXCEPT !.hash = h3, !.it = hashing.it + 1]
  /\ UNCHANGED <<context, ctxobj, stack, junk, op, ret, out, pc>>

\* the call: size_t hash = 0; it = key
HashCall(key) ==
  /\ pc = "run"
  /\ ~hashing.busy
  /\ \E last \in {hashing.last,
                  [called |-> TRUE, key |-> hashing.key, hash |-> hashing.hash]} :
       hashing' = [busy |-> TRUE, key |-> key, it |-> 1, hash |-> 0, last |-> last]
  /\ UNCHANGED <<context, ctxobj, stack, junk, op, ret, out, pc>>

\* one iteration: hash += c; hash *= c; hash %= MAP_LENGTH; it++
HashStep ==
  /\ hashing.busy
  /\ hashing.it <= Len(hashing.key)
  /\ LET c == hashing.key[hashing.it]
         h1 == hashing.hash + c
         h2 == h1 * c
         h3 == h2 % MAP_LENGTH
     IN hashing' = [hashing EXCEPT !.hash = h3, !.it = hashing.it + 1]
  /\ UNCHANGED <<context, ctxobj, stack, junk, op, ret, out, pc>>

\* *it == '\0': return (hash)
HashReturn ==
  /\ hashing.busy
  /\ hashing.it > Len(hashing.key)
  /\ hashing' = [hashing EXCEPT !.busy = FALSE]
  /\ op' = [name |-> "ctxhash"]
  /\ UNCHANGED <<context, ctxobj, stack, junk, ret, out, pc>>

\* operations on the context between two calls of ctxhash
Between ==
  /\ ~hashing.busy
  /\ CtxAllocOk \/ CtxPush

HashNext ==
  \/ \E key \in HashKeys : HashCall(key)
  \/ HashStep
  \/ HashReturn
  \/ Between

HashSpec == Init /\ [][HashNext]_vars

(***************************************************************************)
(* Vocabulary of the properties.                                           *)
(***************************************************************************)
\* the live nodes met by following at most n tail links from head
RECURSIVE Chain(_, _, _)
Chain(st, head, n) ==
  IF n = 0 \/ ~Live(st, head) THEN << >>
  ELSE <<head>> \o Chain(st, st[head].tail, n - 1)

\* the scopes on the stack, innermost first: context->size nodes from head
Scopes == Chain(stack, ctxobj.head, ctxobj.size)

\* the heap as the calls have read it so far
Heap == IF junk = UNREAD THEN stack ELSE Resolve(stack, junk)

\* the stack is size >= 1 live scopes from head, ending at a null link
WellFormed(obj, st) ==
  LET scopes == Chain(st, obj.head, obj.size)
  IN /\ obj.size >= 1
     /\ Len(scopes) = obj.size
     /\ st[scopes[obj.size]].tail = NULL

LiveNodes(st) == {a \in Addr : st[a].live}

\* a node binds key in some slot
Binds(node, key) == \E i \in Slots : node.pairs[i].key = key

\* the value a node binds key to
BoundValue(node, key) ==
  node.pairs[CHOOSE i \in Slots : node.pairs[i].key = key].value

\* the context is in use: allocated, not handed to ctxfree
InUse == context # NULL /\ pc # "exit"

\* the scopes on the stack that bind key, as positions of Scopes
Binding(key) ==
  LET scopes == Scopes
  IN {i \in 1..Len(scopes) : Binds(stack[scopes[i]], key)}

\* the innermost of them
Innermost(key) ==
  LET binding == Binding(key)
  IN CHOOSE i \in binding : \A j \in binding : i <= j

\* ctxsearch as a caller with a non-null int *value sees it
Lookup(obj, st, key) == ctxsearch(CTX, obj, st, key, TRUE)

Found(value) == [ret |-> EXIT_SUCCESS, value |-> value]

(***************************************************************************)
(* C1: reset of a live context holding n >= 1 scopes leaves exactly one    *)
(* scope: the scopes above the base are released, head refers to the       *)
(* surviving base scope, the scope count is 1 and every slot of the base   *)
(* scope is unoccupied.  Stated of every ctxreset step on a stack of       *)
(* context->size live scopes whose base tail reads as null.                *)
(***************************************************************************)
C1_ResetLeavesEmptyBase ==
  [][(op'.name = "ctxreset" /\ context # NULL /\ junk' = NULL
        /\ WellFormed(ctxobj, Resolve(stack, NULL)))
       => LET base == Scopes[ctxobj.size]
          IN /\ ret' = VOID
             /\ LiveNodes(stack') = {base}
             /\ ctxobj'.head = base
             /\ ctxobj'.size = 1
             /\ Occupied(stack'[base]) = {}]_vars

(***************************************************************************)
(* C2: in every reachable state a live context's size is at least 1 and    *)
(* equals the number of scopes on its stack: following tail links from     *)
(* head visits exactly size live scopes and then ends at a null link.      *)
(***************************************************************************)
C2_SizeCountsScopes == InUse => WellFormed(ctxobj, Heap)

(***************************************************************************)
(* C3: in every reachable state, for every live scope, the size counter    *)
(* equals the number of occupied slots and lies in 0..MAP_LENGTH (keys     *)
(* inserted are non-empty).                                                *)
(***************************************************************************)
C3_SizeCountsOccupied ==
  \A a \in LiveNodes(stack) :
    /\ stack[a].size = Cardinality(Occupied(stack[a]))
    /\ 0 <= stack[a].size
    /\ stack[a].size <= MAP_LENGTH

(***************************************************************************)
(* C4: destroy releases every scope node of the stack and then the         *)
(* context itself, so that no allocation of create or push remains live,   *)
(* and it reads no uninitialised or released memory (it returns, and no    *)
(* tail it follows was never written); destroy on an absent context does   *)
(* nothing.                                                                *)
(***************************************************************************)
C4_DestroyReleasesAll ==
  [][op'.name = "ctxfree"
       => IF context = NULL
            THEN ret' = VOID /\ stack' = stack /\ ctxobj' = ctxobj
          ELSE /\ ret' = VOID
               /\ BaseOf(stack) = {}
               /\ LiveNodes(stack') = {}
               /\ ~ctxobj'.live]_vars

(***************************************************************************)
(* C5: search returns the value bound to key in the innermost scope that   *)
(* binds key: an inner binding shadows an outer one while the inner scope  *)
(* is on the stack, and the outer value is returned again once the inner   *)
(* scope is popped.  Stated of every search step, from every state.        *)
(***************************************************************************)
C5_InnermostWins ==
  [][op'.name = "ctxsearch"
       => \A key \in Keys :
            (context # NULL /\ Binding(key) # {} /\ CtxSearch(key, TRUE))
              => /\ ret' = EXIT_SUCCESS
                 /\ out' = BoundValue(stack[Scopes[Innermost(key)]], key)]_vars

\* a search answered from the head scope while the scope below binds the
\* same key to another value, no other key being bound to the value returned
C5_Witness ==
  /\ op.name = "ctxsearch"
  /\ ret = EXIT_SUCCESS
  /\ Len(Scopes) >= 2
  /\ \E key \in Keys :
       /\ Binds(stack[Scopes[1]], key)
       /\ Binds(stack[Scopes[2]], key)
       /\ out = BoundValue(stack[Scopes[1]], key)
       /\ out # BoundValue(stack[Scopes[2]], key)
       /\ \A other \in Keys \ {key}, a \in LiveNodes(stack) :
            Binds(stack[a], other) => BoundValue(stack[a], other) # out

(***************************************************************************)
(* C6: pop on a context with scope count <= 1 fails with EXIT_MINIMISED    *)
(* and leaves the context unchanged; pop on a context with scope count > 1 *)
(* releases the head scope, makes its immediate predecessor the new head   *)
(* and decrements the scope count by exactly 1.                            *)
(***************************************************************************)
C6_Pop ==
  [][(op'.name = "ctxpop" /\ context # NULL)
       => IF ctxobj.size <= 1
            THEN /\ ret' = EXIT_MINIMISED
                 /\ ctxobj' = ctxobj
                 /\ stack' = stack
          ELSE /\ ret' = EXIT_SUCCESS
               /\ Len(Scopes) >= 2
               /\ ~Live(stack', Scopes[1])
               /\ ctxobj'.head = Scopes[2]
               /\ ctxobj'.size = ctxobj.size - 1
               /\ \A a \in Addr \ {Scopes[1]} : stack'[a] = stack[a]]_vars

\* a refused pop of a base scope that holds a binding
C6_Witness ==
  /\ op.name = "ctxpop"
  /\ ret = EXIT_MINIMISED
  /\ ctxobj.size = 1
  /\ Len(Scopes) = 1
  /\ Occupied(stack[Scopes[1]]) # {}

(***************************************************************************)
(* C7, as stated: insert of a key already bound in the head scope fails    *)
(* with EXIT_REDEFINED and leaves that scope unchanged, so search still    *)
(* returns the bound value; a key bound only in an enclosing scope does    *)
(* not cause EXIT_REDEFINED and can be inserted into the head scope.       *)
(***************************************************************************)
C7_AsStated ==
  [][(op'.name = "ctxinsert" /\ context # NULL /\ Len(Scopes) >= 1)
       => LET head == stack[Scopes[1]]
          IN \A key \in Keys :
               /\ Binds(head, key)
                    => \A value \in Values :
                         CtxInsert(key, value)
                           => /\ ret' = EXIT_REDEFINED
                              /\ stack' = stack
                              /\ ctxobj' = ctxobj
                              /\ Lookup(ctxobj', stack', key)
                                   = Found(BoundValue(head, key))
               /\ (~Binds(head, key) /\ Binding(key) # {})
                    => \A value \in Values :
                         CtxInsert(key, value)
                           => /\ ret' # EXIT_REDEFINED
                              /\ head.size < MAP_LENGTH
                                   => /\ ret' = EXIT_SUCCESS
                                      /\ Binds(stack'[Scopes[1]], key)]_vars

(***************************************************************************)
(* C7, amended: insert of a key already bound in the head scope fails,     *)
(* with EXIT_REDEFINED while the scope's size is below MAP_LENGTH and with *)
(* EXIT_MAXIMISED once it has reached MAP_LENGTH, and in both cases leaves *)
(* that scope unchanged, so search still returns the bound value; a key    *)
(* bound only in an enclosing scope does not cause EXIT_REDEFINED and is   *)
(* inserted into the head scope while its size is below MAP_LENGTH.        *)
(***************************************************************************)
C7_Redefined ==
  [][(op'.name = "ctxinsert" /\ context # NULL /\ Len(Scopes) >= 1)
       => LET head == stack[Scopes[1]]
          IN \A key \in Keys :
               /\ Binds(head, key)
                    => \A value \in Values :
                         CtxInsert(key, value)
                           => /\ ret' = IF head.size < MAP_LENGTH
                                          THEN EXIT_REDEFINED
                                        ELSE EXIT_MAXIMISED
                              /\ stack' = stack
                              /\ ctxobj' = ctxobj
                              /\ Lookup(ctxobj', stack', key)
                                   = Found(BoundValue(head, key))
               /\ (~Binds(head, key) /\ Binding(key) # {})
                    => \A value \in Values :
                         CtxInsert(key, value)
                           => /\ ret' # EXIT_REDEFINED
                              /\ head.size < MAP_LENGTH
                                   => /\ ret' = EXIT_SUCCESS
                                      /\ Binds(stack'[Scopes[1]], key)]_vars

\* a refused redefinition in a head scope that is not full
C7_Witness ==
  /\ op.name = "ctxinsert"
  /\ ret = EXIT_REDEFINED
  /\ Len(Scopes) >= 1
  /\ Occupied(stack[Scopes[1]]) # {}
  /\ stack[Scopes[1]].size < MAP_LENGTH

(***************************************************************************)
(* C8: into an empty head scope (as left by create, push or reset)         *)
(* MAP_LENGTH distinct keys can be inserted, each insert succeeding; once  *)
(* the scope holds MAP_LENGTH bindings every further insert fails with     *)
(* EXIT_MAXIMISED and leaves the scope unchanged.  Stated of every insert  *)
(* step: a key the head scope does not bind goes in while fewer than       *)
(* MAP_LENGTH slots are occupied, and nothing goes in when all are.        *)
(***************************************************************************)
C8_FillsToCapacity ==
  [][(op'.name = "ctxinsert" /\ context # NULL /\ Len(Scopes) >= 1)
       => \A key \in Keys, value \in Values :
            CtxInsert(key, value)
              => LET head == stack[Scopes[1]]
                     n == Cardinality(Occupied(head))
                 IN /\ (n < MAP_LENGTH /\ ~Binds(head, key))
                         => /\ ret' = EXIT_SUCCESS
                            /\ Cardinality(Occupied(stack'[Scopes[1]])) = n + 1
                    /\ n = MAP_LENGTH
                         => ret' = EXIT_MAXIMISED /\ stack' = stack]_vars

(***************************************************************************)
(* C9: after a successful insert(key, v) into the head scope search(key)   *)
(* returns v, and keeps returning v across further inserts, successful or  *)
(* failed, into that scope, colliding keys included.                       *)
(***************************************************************************)
C9_InsertThenSearch ==
  [][op'.name = "ctxinsert"
       => /\ ret' = EXIT_SUCCESS
               => \A key \in Keys, value \in Values :
                    CtxInsert(key, value)
                      => Lookup(ctxobj', stack', key) = Found(value)
          /\ (context # NULL /\ Len(Scopes) >= 1)
               => \A key \in Keys :
                    Binds(stack[Scopes[1]], key)
                      => Lookup(ctxobj', stack', key)
                           = Found(BoundValue(stack[Scopes[1]], key))]_vars

\* a successful insert into a head scope that now holds two keys of the
\* same hash, both found by search
C9_Witness ==
  /\ op.name = "ctxinsert"
  /\ ret = EXIT_SUCCESS
  /\ Len(Scopes) >= 1
  /\ \E k1, k2 \in Keys :
       /\ k1 # k2
       /\ ctxhash(k1) = ctxhash(k2)
       /\ Binds(stack[Scopes[1]], k1)
       /\ Binds(stack[Scopes[1]], k2)
       /\ Lookup(ctxobj, stack, k1).ret = EXIT_SUCCESS
       /\ Lookup(ctxobj, stack, k2).ret = EXIT_SUCCESS

(***************************************************************************)
(* C10: search fails with EXIT_UNDEFINED exactly when no scope on the      *)
(* stack from head to the base binds key.                                  *)
(***************************************************************************)
C10_UndefinedIffUnbound ==
  [][(op'.name = "ctxsearch" /\ context # NULL)
       => \A key \in Keys :
            CtxSearch(key, TRUE)
              => (ret' = EXIT_UNDEFINED <=> Binding(key) = {})]_vars

(***************************************************************************)
(* C11: a push followed by a pop restores the context exactly: for any     *)
(* N >= 0, pushing N scopes, with any inserts into the pushed scopes, and  *)
(* popping N times returns the scope count to its earlier value and leaves *)
(* every binding of every scope that existed before unchanged; from a      *)
(* fresh context the count is back to 1.  Stated of every state an         *)
(* operation can be called in, for every N the heap has room for.          *)
(***************************************************************************)
\* the inserts made into one pushed scope: the keys of K in the order of
\* KeyPool, each with value v
RECURSIVE BatchOf(_, _, _)
BatchOf(K, v, i) ==
  IF i > Len(KeyPool) THEN << >>
  ELSE (IF KeyPool[i] \in K THEN <<[key |-> KeyPool[i], value |-> v]>> ELSE << >>)
         \o BatchOf(K, v, i + 1)

Batches == {BatchOf(K, v, 1) : K \in SUBSET Keys, v \in Values}

\* the heap after ctxinsert of each pair of batch in turn
RECURSIVE InsertAll(_, _, _)
InsertAll(obj, st, batch) ==
  IF batch = << >> THEN st
  ELSE InsertAll(obj,
                 ctxinsert(CTX, obj, st, Head(batch).key, Head(batch).value).st,
                 Tail(batch))

\* n nested pushes, each followed by any batch of inserts, and n pops give
\* back obj and st
RECURSIVE RoundTrips(_, _, _)
RoundTrips(obj, st, n) ==
  \/ n = 0
  \/ LET pushed == ctxpush(CTX, obj, st, TRUE)
     IN \A batch \in Batches :
          LET filled == InsertAll(pushed.obj, pushed.st, batch)
              popped == ctxpop(CTX, pushed.obj, filled)
          IN /\ RoundTrips(pushed.obj, filled, n - 1)
             /\ popped.ret = EXIT_SUCCESS
             /\ popped.obj = obj
             /\ popped.st = st

C12_Push ==
  [][(op'.name = "ctxpush" /\ context # NULL)
       => IF ret' = EXIT_SUCCESS
            THEN LET head == ctxobj'.head
                 IN /\ ~Live(stack, head)
                    /\ Live(stack', head)
                    /\ Occupied(stack'[head]) = {}
                    /\ stack'[head].size = 0
                    /\ stack'[head].tail = ctxobj.head
                    /\ ctxobj'.size = ctxobj.size + 1
                    /\ \A a \in Addr \ {head} : stack'[a] = stack[a]
          ELSE /\ ret' = EXIT_MALLOC
               /\ ctxobj' = ctxobj
               /\ stack' = stack]_vars

\* a push that has put an empty scope above a base scope holding a binding
C12_Witness ==
  /\ op.name = "ctxpush"
  /\ ret = EXIT_SUCCESS
  /\ ctxobj.size = 2
  /\ Len(Scopes) = 2
  /\ Occupied(stack[Scopes[1]]) = {}
  /\ Occupied(stack[Scopes[2]]) # {}

(***************************************************************************)
(* C13: create returns a context with scope count 1 whose single base      *)
(* scope has all slots unoccupied and size 0; if either the context        *)
(* allocation or the base-scope allocation fails, create returns a null    *)
(* context and no allocation it made remains live.                         *)
(***************************************************************************)
C13_Create ==
  [][op'.name = "ctxalloc"
       => IF context' # NULL
            THEN LET head == ctxobj'.head
                 IN /\ ctxobj'.live
                    /\ ctxobj'.size = 1
                    /\ ~Live(stack, head)
                    /\ Live(stack', head)
                    /\ Occupied(stack'[head]) = {}
                    /\ stack'[head].size = 0
                    /\ LiveNodes(stack') = LiveNodes(stack) \cup {head}
          ELSE /\ ~ctxobj'.live
               /\ LiveNodes(stack') = LiveNodes(stack)]_vars

\* a context as create returns it: one empty base scope, nothing else live
C13_Witness ==
  /\ op.name = "ctxalloc"
  /\ context # NULL
  /\ ctxobj.size = 1
  /\ LiveNodes(stack) = {ctxobj.head}
  /\ Occupied(stack[ctxobj.head]) = {}
  /\ stack[ctxobj.head].size = 0

(***************************************************************************)
(* C14: with a null context push, pop, insert and search each return       *)
(* EXIT_NULLPTR, and insert with a null key and search with a null key or  *)
(* a null value pointer return EXIT_NULLPTR as well; in all these cases,   *)
(* and for reset and destroy on a null context, no context state changes.  *)
(***************************************************************************)
C14_NullArguments ==
  [][/\ (context = NULL
           /\ op'.name \in {"ctxpush", "ctxpop", "ctxinsert", "ctxsearch"})
          => /\ ret' = EXIT_NULLPTR
             /\ out' = NoValue
             /\ UNCHANGED <<context, ctxobj, stack>>
     /\ (context = NULL /\ op'.name \in {"ctxreset", "ctxfree"})
          => /\ ret' = VOID
             /\ pc' = "run"
             /\ UNCHANGED <<context, ctxobj, stack>>
     /\ (op'.name = "ctxinsert" /\ \E value \in Values : CtxInsert(NullKey, value))
          => /\ ret' = EXIT_NULLPTR
             /\ UNCHANGED <<context, ctxobj, stack>>
     /\ (op'.name = "ctxsearch"
           /\ \/ \E valueptr \in BOOLEAN : CtxSearch(NullKey, valueptr)
              \/ \E key \in Keys : CtxSearch(key, FALSE))
          => /\ ret' = EXIT_NULLPTR
             /\ out' = NoValue
             /\ UNCHANGED <<context, ctxobj, stack>>]_vars

\* a search refused for a null argument on a context that holds a binding
C14_Witness ==
  /\ op.name = "ctxsearch"
  /\ ret = EXIT_NULLPTR
  /\ context # NULL
  /\ Len(Scopes) = ctxobj.size
  /\ \E i \in 1..Len(Scopes) : Occupied(stack[Scopes[i]]) # {}

(***************************************************************************)
(* C15: whenever insert passes its capacity check (head scope size below   *)
(* MAP_LENGTH), its probe loop from hash(key), stepping +1 mod MAP_LENGTH, *)
(* terminates within MAP_LENGTH steps, at an unoccupied slot or at a slot  *)
(* holding key; in every state reachable by any sequence of operations,    *)
(* reset included.                                                         *)
(***************************************************************************)
C15_ProbeTerminates ==
  (InUse /\ pc = "run" /\ Live(stack, ctxobj.head)
     /\ stack[ctxobj.head].size < MAP_LENGTH)
    => \A key \in Keys, value \in Values :
         InsertProbe(MapOf(stack[ctxobj.head]), key, value, ctxhash(key), 0).ret
           \in {EXIT_SUCCESS, EXIT_REDEFINED}

\* an insert that succeeded at a slot other than the key's hash: the probe
\* stepped over occupied slots
C15_Witness ==
  /\ op.name = "ctxinsert"
  /\ ret = EXIT_SUCCESS
  /\ Len(Scopes) >= 1
  /\ \E key \in Keys, i \in Slots :
       /\ stack[Scopes[1]].pairs[i].key = key
       /\ i # ctxhash(key)

(***************************************************************************)
(* C16: in every reachable state and every live scope, for each occupied   *)
(* slot j holding key k, every slot on the cyclic probe path from hash(k)  *)
(* up to and including j is occupied; hence search's early exit at the     *)
(* first unoccupied slot never skips a key that is bound in that scope.    *)
(***************************************************************************)
\* the slots from hash(key) up to and including j, stepping +1 mod MAP_LENGTH
ProbePath(key, j) ==
  {(ctxhash(key) + d) % MAP_LENGTH :
     d \in 0..((j + MAP_LENGTH - ctxhash(key)) % MAP_LENGTH)}

C16_ProbePathOccupied ==
  \A a \in LiveNodes(stack) :
    \A j \in Occupied(stack[a]) :
      LET key == stack[a].pairs[j].key
      IN /\ ProbePath(key, j) \subseteq Occupied(stack[a])
         /\ SearchProbe(stack[a].pairs, key, ctxhash(key), 0)
              = [found |-> TRUE, value |-> stack[a].pairs[j].value]

\* a search that found a key held at a slot other than its hash
C16_Witness ==
  /\ op.name = "ctxsearch"
  /\ ret = EXIT_SUCCESS
  /\ \E a \in LiveNodes(stack), j \in Slots :
       /\ j \in Occupied(stack[a])
       /\ j # ctxhash(stack[a].pairs[j].key)
       /\ out = stack[a].pairs[j].value
       /\ \A i \in Slots \ {j} : stack[a].pairs[i].value # out

(***************************************************************************)
(* C17: hash(key) equals the fold h <- 0; for each byte c of key:          *)
(* h <- ((h + c) * c) mod MAP_LENGTH; its result lies in 0..MAP_LENGTH-1;  *)
(* and it is deterministic: two calls with the same key return the same    *)
(* value whatever the context state and the operations in between.         *)
(***************************************************************************)
C17_HashFold ==
  [][HashReturn
       => /\ hashing'.hash = ctxhash(hashing.key)
          /\ hashing'.hash \in 0..(MAP_LENGTH - 1)
          /\ (hashing.last.called /\ hashing.last.key = hashing.key)
               => hashing'.hash = hashing.last.hash]_vars

\* a second call with a key of two bytes has returned, on a context created
\* and pushed onto, what the remembered call returned
C17_Witness ==
  /\ op.name = "ctxhash"
  /\ ~hashing.busy
  /\ Len(hashing.key) = 2
  /\ hashing.last = [called |-> TRUE, key |-> hashing.key, hash |-> hashing.hash]
  /\ hashing.hash # 0
  /\ context # NULL
  /\ ctxobj.size = 2

(***************************************************************************)
(* C18: insert changes only the head scope: a successful insert writes     *)
(* exactly one previously unoccupied slot of the head scope and increments *)
(* that scope's size by 1, leaving every other slot of the head scope,     *)
(* every enclosing scope's slots and size, the head pointer and the scope  *)
(* count unchanged (an insert that fails changes nothing).                 *)
(***************************************************************************)
C18_InsertFrame ==
  [][(op'.name = "ctxinsert" /\ context # NULL /\ Len(Scopes) >= 1)
       => LET head == Scopes[1]
          IN /\ context' = context
             /\ ctxobj' = ctxobj
             /\ \A a \in Addr \ {head} : stack'[a] = stack[a]
             /\ stack'[head].live = stack[head].live
             /\ stack'[head].tail = stack[head].tail
             /\ IF ret' = EXIT_SUCCESS
                  THEN /\ stack'[head].size = stack[head].size + 1
                       /\ \E j \in Slots :
                            /\ stack[head].pairs[j].key = EmptyKey
                            /\ stack'[head].pairs[j].key # EmptyKey
                            /\ \A i \in Slots \ {j} :
                                 stack'[head].pairs[i] = stack[head].pairs[i]
                ELSE stack'[head] = stack[head]]_vars

\* a successful first insert into a pushed scope over a base scope that
\* holds a binding
C18_Witness ==
  /\ op.name = "ctxinsert"
  /\ ret = EXIT_SUCCESS
  /\ Len(Scopes) = 2
  /\ Cardinality(Occupied(stack[Scopes[1]])) = 1
  /\ stack[Scopes[1]].size = 1
  /\ Occupied(stack[Scopes[2]]) # {}

(***************************************************************************)
(* C19: search never modifies the context: whether it succeeds or fails,   *)
(* the scope count, head, and every slot and size of every scope are the   *)
(* same after the call as before; only the caller's value output is        *)
(* written, and only on success.  Stated of every search that returns.     *)
(***************************************************************************)
C19_SearchFrame ==
  [][(op'.name = "ctxsearch" /\ pc' = "run")
       => /\ context' = context
          /\ ctxobj' = ctxobj
          /\ stack' = stack
          /\ ret' \in {EXIT_SUCCESS, EXIT_UNDEFINED, EXIT_NULLPTR}
          /\ ret' # EXIT_SUCCESS => out' = NoValue]_vars

\* a search that found nothing in two scopes that both hold bindings
C19_Witness ==
  /\ op.name = "ctxsearch"
  /\ ret = EXIT_UNDEFINED
  /\ out = NoValue
  /\ Len(Scopes) = 2
  /\ Occupied(stack[Scopes[1]]) # {}
  /\ Occupied(stack[Scopes[2]]) # {}

(***************************************************************************)
(* C20: in every reachable state no key occurs in more than one occupied   *)
(* slot of the same scope, after any sequence of inserts with arbitrary    *)
(* hash collisions.                                                        *)
(***************************************************************************)
C20_OneBindingPerKey ==
  \A a \in LiveNodes(stack) :
    \A i \in Occupied(stack[a]), j \in Occupied(stack[a]) :
      stack[a].pairs[i].key = stack[a].pairs[j].key => i = j

\* an insert has bound in the head scope a key that the scope below binds
\* too: once in each scope
C20_Witness ==
  /\ op.name = "ctxinsert"
  /\ ret = EXIT_SUCCESS
  /\ Len(Scopes) = 2
  /\ \E key \in Keys :
       /\ Cardinality({i \in Slots : stack[Scopes[1]].pairs[i].key = key}) = 1
       /\ Cardinality({i \in Slots : stack[Scopes[2]].pairs[i].key = key}) = 1

====
